---------------------------- MODULE Spec2Model ----------------------------
(***************************************************************************)
(* Model of the media-processing job worker (src/worker-python/            *)
(* rp_handler.py):                                                         *)
(*   - handler (img2vid) and the batch scheduler process_img2vid_batch     *)
(*     with its thread pool (Spec),                                        *)
(*   - the cyclic sequencer of concatenate_videos_cyclic, Step 5 (SpecSeq),*)
(*   - the variant distributor distribute_zoom_types (SpecDist),           *)
(*   - the resource probe get_container_cpu_quota and                      *)
(*     calculate_optimal_batch_size (SpecProbe),                           *)
(*   - the local files of one image_to_video call (SpecWorker),            *)
(*   - the steps and local files of a concat_video_audio job (SpecCyclic), *)
(*   - jobs sharing the S3 globals of reconfigure_s3 (SpecS3),             *)
(*   - the input files of the image_to_video workers of one chunk          *)
(*     (SpecChunk).                                                        *)
(* Each component has its own specification; the variables of the          *)
(* components a specification does not run stay at their idle values.      *)
(***************************************************************************)
EXTENDS Integers, Sequences, FiniteSets, TLC

(* ------------------------------ bounds -------------------------------- *)
\* largest number of images in one batch job
MaxItems == 4
\* largest BATCH_SIZE explored (the code clamps it to [2, 16])
MaxBatch == 3
\* largest start_index explored
MaxStart == 1
\* number of workers of the chunk whose input files are followed
MaxWorkers == 2
\* largest number of zoom types in a call of distribute_zoom_types
MaxTypes == 2
\* largest image_count in a call of distribute_zoom_types
MaxCount == 5
\* significand bits of the floating-point format of the sequencer model
Prec == 3
\* largest duration value (in units of the smallest step of the format)
MaxVal == 20
\* largest number of clips in a cyclic concatenation
MaxClips == 2
\* largest number of plan segments explored
MaxSegments == 14

(* ------------------------------ helpers ------------------------------- *)
Min(a, b) == IF a < b THEN a ELSE b

Range(s) == {s[x] : x \in DOMAIN s}

\* number of positions of sequence s holding value v  (list.count)
Count(s, v) == Cardinality({x \in DOMAIN s : s[x] = v})

(* ----------------------------- variables ------------------------------ *)
VARIABLES
  \* ---- process_img2vid_batch ----
  images,             \* the job's image list (ids)
  zoom_types,         \* the job's zoom_types argument
  start_index,        \* the job's start_index argument
  path,               \* the job's path (key prefix in the object store)
  BATCH_SIZE,         \* module global set at import
  pc,                 \* position of the scheduler thread
  zoom_distribution,  \* one zoom type per image
  results,            \* list of collected results
  i,                  \* loop variable of the chunk loop (0-based)
  j,                  \* loop variable inside a chunk (0-based)
  max_workers,        \* thread limit of the current executor
  futures,            \* per image position: state of its future / worker
  wargs,              \* per image position: arguments given to image_to_video
  exc,                \* an exception is propagating out of the with-block
  ret,                \* value returned by process_img2vid_batch
  batch,              \* images[i:i + BATCH_SIZE] of the current chunk
  finish_order,       \* history: image positions in the order their workers ended
  issued,             \* history: the set of video_index values handed to workers
  issued_count,       \* history: how many times a video_index was handed out
  first_start,        \* history: start_index of the first invocation
  invocation,         \* history: "first", or "second" for the cooperating call
  store,              \* the object store: keys of the objects published
  \* ---- distribute_zoom_types ----
  dpc, d_zoom_types, d_image_count, distribution,
  distribution_again, \* result of a second call with the same arguments
  \* ---- concatenate_videos_cyclic, Step 5 ----
  spc, video_durations, audio_duration, video_sequence,
  accumulated_duration, video_index, segment_count

batchVars == <<images, zoom_types, start_index, path, BATCH_SIZE, pc,
               zoom_distribution, results, i, j, max_workers, futures,
               wargs, exc, ret, batch, finish_order, issued, issued_count,
               first_start, invocation, store>>
distVars == <<dpc, d_zoom_types, d_image_count, distribution,
              distribution_again>>
seqVars == <<spc, video_durations, audio_duration, video_sequence,
             accumulated_duration, video_index, segment_count>>

VARIABLES
  \* ---- get_container_cpu_quota / calculate_optimal_batch_size ----
  env_cpu_count,      \* os.getenv('RUNPOD_CPU_COUNT')
  cgroup_v2,          \* /sys/fs/cgroup/cpu.max: its tokens, or None if absent
  cgroup_v1,          \* cpu.cfs_quota_us and cpu.cfs_period_us, or None
  os_cpu_count,       \* what multiprocessing.cpu_count() does
  ppc,                \* position in calculate_optimal_batch_size
  container_vcpus,    \* result of get_container_cpu_quota
  detection_source,   \* history: the source whose value was taken
  batch_size          \* result of calculate_optimal_batch_size

probeVars == <<env_cpu_count, cgroup_v2, cgroup_v1, os_cpu_count, ppc,
               container_vcpus, detection_source, batch_size>>

VARIABLES
  \* ---- image_to_video ----
  w_pc,               \* position inside image_to_video
  w_args,             \* its arguments image_id, video_index, path
  local_files,        \* files present under WORK_DIR and OUTPUT_DIR
  w_raising,          \* an exception is on its way out of the try block
  w_published         \* keys this call has uploaded

workerVars == <<w_pc, w_args, local_files, w_raising, w_published>>

VARIABLES
  \* ---- handler (concat_video_audio) and concatenate_videos_cyclic ----
  c_pc,               \* position of the job
  video_urls,         \* the job's clip list (clip numbers 0, 1, ...)
  normalize,          \* the job's normalize flag
  c_k,                \* loop variable of the download and normalize loops
  job_files,          \* files present under work_dir and OUTPUT_DIR
  work_dir_exists,    \* the per-job work directory exists
  input_files,        \* cleanup list of downloaded clips
  normalized_files,   \* cleanup list of normalized clips
  trimmed_files,      \* cleanup list of trimmed clips
  c_raising,          \* an exception is on its way out of the try block
  transcodes          \* history: the FFmpeg transcoding invocations made

cyclicVars == <<c_pc, video_urls, normalize, c_k, job_files, work_dir_exists,
                input_files, normalized_files, trimmed_files, c_raising,
                transcodes>>

VARIABLES
  \* ---- handler, reconfigure_s3, upload_to_s3: jobs sharing the S3 globals ----
  j_pc,               \* per job: position of the thread running it
  s3_config,          \* per job: the fields its s3_config provides
  S3_ENDPOINT_URL,    \* module global
  S3_ACCESS_KEY,      \* module global (with it: S3_SECRET_KEY)
  S3_BUCKET_NAME,     \* module global
  s3_client,          \* module global: the client and what it was built from
  bucket,             \* per job: the bucket argument of its upload_to_s3 call
  uploaded,           \* per job: endpoint, credentials and bucket of its upload
  public_url,         \* per job: endpoint and bucket of the URL it returns
  interfered,         \* history, per job: another job reconfigured meanwhile
  j_valid,            \* per job: its operation is known and its required
                      \* fields are present
  reconfigure_log     \* history: the jobs whose reconfigure_s3 assigned the
                      \* globals, in the order of the assignments

s3Vars == <<j_pc, s3_config, S3_ENDPOINT_URL, S3_ACCESS_KEY, S3_BUCKET_NAME,
            s3_client, bucket, uploaded, public_url, interfered, j_valid,
            reconfigure_log>>

VARIABLES
  \* ---- the image_to_video workers of one chunk ----
  t_pc,               \* per worker: position inside image_to_video
  t_image_id,         \* per worker: the id of its item
  t_raising,          \* per worker: an exception is on its way out
  work_dir            \* per input path under WORK_DIR: the worker whose
                      \* download wrote the file last, 0 when there is no file

chunkVars == <<t_pc, t_image_id, t_raising, work_dir>>

vars == <<batchVars, distVars, seqVars, probeVars, workerVars, cyclicVars,
          s3Vars, chunkVars>>

\* the variables each component leaves alone
nonBatchVars == <<distVars, seqVars, probeVars, workerVars, cyclicVars, s3Vars,
  chunkVars>>
nonDistVars == <<batchVars, seqVars, probeVars, workerVars, cyclicVars, s3Vars,
  chunkVars>>
nonSeqVars == <<batchVars, distVars, probeVars, workerVars, cyclicVars, s3Vars,
  chunkVars>>
nonProbeVars == <<batchVars, distVars, seqVars, workerVars, cyclicVars, s3Vars,
  chunkVars>>
nonWorkerVars == <<batchVars, distVars, seqVars, probeVars, cyclicVars, s3Vars,
  chunkVars>>
nonCyclicVars == <<batchVars, distVars, probeVars, workerVars, s3Vars,
  chunkVars>>
nonChunkVars == <<batchVars, distVars, seqVars, probeVars, workerVars,
                  cyclicVars, s3Vars>>
nonS3Vars == <<batchVars, distVars, seqVars, probeVars, workerVars, cyclicVars,
  chunkVars>>

ProbeIdle ==
  /\ env_cpu_count = <<"None", 0>>
  /\ cgroup_v2 = [exists |-> FALSE, parts |-> <<>>]
  /\ cgroup_v1 = [exists |-> FALSE, quota |-> <<"", 0>>, period |-> <<"", 0>>]
  /\ os_cpu_count = [raises |-> FALSE, n |-> 1]
  /\ ppc = "idle"
  /\ container_vcpus = [kind |-> "None", v |-> 0]
  /\ detection_source = "none"
  /\ batch_size = 0

\* no job is running; the globals hold the values of the environment (0)
S3Idle ==
  /\ j_pc = <<>>
  /\ s3_config = <<>>
  /\ S3_ENDPOINT_URL = 0
  /\ S3_ACCESS_KEY = 0
  /\ S3_BUCKET_NAME = 0
  /\ s3_client = [endpoint_url |-> 0, access_key |-> 0]
  /\ bucket = <<>>
  /\ uploaded = <<>>
  /\ public_url = <<>>
  /\ interfered = <<>>
  /\ j_valid = <<>>
  /\ reconfigure_log = <<>>

CyclicIdle ==
  /\ c_pc = "idle"
  /\ video_urls = <<>>
  /\ normalize = TRUE
  /\ c_k = 0
  /\ job_files = {}
  /\ work_dir_exists = FALSE
  /\ input_files = <<>>
  /\ normalized_files = <<>>
  /\ trimmed_files = <<>>
  /\ c_raising = FALSE
  /\ transcodes = <<>>

ChunkIdle ==
  /\ t_pc = <<>>
  /\ t_image_id = <<>>
  /\ t_raising = <<>>
  /\ work_dir = <<>>

WorkerIdle ==
  /\ w_pc = "idle"
  /\ w_args = [image_id |-> 0, video_index |-> 0, path |-> "None"]
  /\ local_files = {}
  /\ w_raising = FALSE
  /\ w_published = {}

(* ======================= distribute_zoom_types ======================== *)
ZoomNames == {"zoomin", "zoomout", "zoompanright"}

\* [x] * n
Repeat(x, n) == [q \in 1..n |-> x]

\* a plausible slip: the remainder is not handed out
RECURSIVE BuildDistributionNoRemainder(_, _, _, _)
BuildDistributionNoRemainder(zt, t, base_count, remainder) ==
  IF t > Len(zt) THEN <<>>
  ELSE Repeat(zt[t], base_count)
         \o BuildDistributionNoRemainder(zt, t + 1, base_count, remainder)

\* the list built by the loop of lines 897-901: for each position t of
\* zoom_types, base_count + (1 if t-1 < remainder else 0) copies of its entry
RECURSIVE BuildDistribution(_, _, _, _)
BuildDistribution(zt, t, base_count, remainder) ==
  IF t > Len(zt) THEN <<>>
  ELSE Repeat(zt[t], base_count + (IF t - 1 < remainder THEN 1 ELSE 0))
         \o BuildDistribution(zt, t + 1, base_count, remainder)

\* the orders random.shuffle can leave a list in: every rearrangement
Shuffles(s) ==
  {r \in [DOMAIN s -> Range(s)] : \A v \in Range(s) : Count(r, v) = Count(s, v)}

\* a plausible slip: the fallback is an empty list
DefaultDistributionEmpty(n) == <<>>

\* line 889: ["zoomin"] * image_count
DefaultDistribution(n) == Repeat("zoomin", n)

\* distribute_zoom_types(zoom_types, image_count): the set of possible results
DistributeZoomTypes(zt, n) ==
  IF Len(zt) = 0 \/ n = 0
  THEN {DefaultDistribution(n)}
  ELSE LET types_count == Len(zt)
           base_count == n \div types_count
           remainder == n % types_count
       IN Shuffles(BuildDistribution(zt, 1, base_count, remainder))

(* ======================= process_img2vid_batch ======================== *)
None == "None"

total == Len(images)

\* images[a:b] of Python for 0 <= a: the elements at 0-based positions a..b-1
Slice(s, a, b) == SubSeq(s, a + 1, Min(b, Len(s)))

\* path values a job can carry: no path, an empty one, a key prefix
PathInputs == {None, "", "videos/"}

\* image positions (1-based) of the current chunk
BatchPositions == (i + 1) .. (i + Len(batch))

\* workers that occupy a pool thread
Running == {p \in DOMAIN futures : futures[p] = "running"}

\* a future is done once its worker returned or raised
Finished(p) == futures[p] \in {"ok", "failed"}

\* image_to_video has been called for position p
Invoked(p) == futures[p] \in {"running", "ok", "failed"}

\* a plausible slip: the chunk offset is left out of the index
VideoIndexLocal(s, ii, jj) == s + jj + 1

\* video_index given to the worker of the item at 0-based position ii + jj
VideoIndex(s, ii, jj) == s + ii + jj + 1

\* what image_to_video returns in upload mode for the given arguments
\* str(n) and f"video_{n}.mp4"
Str(n) == <<"str", n>>
VideoFilename(n) == <<"video_", n, ".mp4">>
S3Key(prefix, filename) == <<prefix, filename>>

\* (item: the image the call worked on, kept to tell the outcomes apart)
WorkerResult(a) == [id |-> Str(a.video_index),
                    filename |-> VideoFilename(a.video_index),
                    item |-> a.image_id]

NoArgs == [image_id |-> 0, zoom_type |-> None, video_index |-> 0]

batchLocals == <<images, zoom_types, start_index, path, BATCH_SIZE>>
histVars == <<finish_order, issued, issued_count, first_start, invocation,
              store>>

\* handler, lines 2057-2065: the img2vid job is validated before anything is
\* done for it; `not images or not path` is true of an empty list, of a
\* missing path and of an empty path, and raises ValueError
\* (a plausible slip: only the image list is looked at)
MissingImagesOnly == images = <<>>
MissingRequiredFields == images = <<>> \/ path = None \/ path = ""

HandlerImg2Vid ==
  /\ pc = "handler"
  /\ IF MissingRequiredFields THEN pc' = "rejected" ELSE pc' = "start"
  /\ UNCHANGED <<batchLocals, zoom_distribution, results, i, j, max_workers,
                 futures, wargs, exc, ret, batch, histVars>>

\* lines 929-943: distribute the zoom types, results = []
BatchStart ==
  /\ pc = "start"
  /\ \E zd \in (IF zoom_types # None /\ Len(zoom_types) > 0
                THEN DistributeZoomTypes(zoom_types, total)
                ELSE {DefaultDistribution(total)}) :
       zoom_distribution' = zd
  /\ results' = <<>>
  /\ i' = 0
  /\ pc' = "loop"
  /\ UNCHANGED <<batchLocals, j, max_workers, futures, wargs, exc, ret, batch,
                 histVars>>

\* a plausible slip: no chunking, the rest of the list goes to one pool that
\* is as large as the list
BeginChunkUnchunked ==
  /\ pc = "loop"
  /\ i < total
  /\ batch' = Slice(images, i, total)
  /\ max_workers' = total
  /\ j' = 0
  /\ pc' = "submit"
  /\ UNCHANGED <<batchLocals, zoom_distribution, results, i, futures, wargs,
                 exc, ret, histVars>>

\* lines 946-954: next value of range(0, total, BATCH_SIZE), the slice
\* batch = images[i:i + BATCH_SIZE], and entry into the with-block of a new
\* ThreadPoolExecutor(max_workers=BATCH_SIZE)
BeginChunk ==
  /\ pc = "loop"
  /\ i < total
  /\ batch' = Slice(images, i, i + BATCH_SIZE)
  /\ max_workers' = BATCH_SIZE
  /\ j' = 0
  /\ pc' = "submit"
  /\ UNCHANGED <<batchLocals, zoom_distribution, results, i, futures, wargs,
                 exc, ret, histVars>>

\* lines 956-968: executor.submit(image_to_video, ...) for the j-th image of
\* the batch; after the last one the list comprehension is complete
Submit ==
  /\ pc = "submit"
  /\ j < Len(batch)
  /\ futures' = [futures EXCEPT ![i + j + 1] = "queued"]
  /\ wargs' = [wargs EXCEPT ![i + j + 1] =
                 [image_id |-> batch[j + 1],
                  zoom_type |-> zoom_distribution[i + j + 1],
                  video_index |-> VideoIndex(start_index, i, j)]]
  /\ issued' = issued \cup {VideoIndex(start_index, i, j)}
  /\ issued_count' = issued_count + 1
  /\ IF j + 1 < Len(batch)
     THEN /\ j' = j + 1
          /\ pc' = "submit"
     ELSE /\ j' = 0
          /\ pc' = "collect"
  /\ UNCHANGED <<batchLocals, zoom_distribution, results, i, max_workers, exc,
                 ret, batch, finish_order, first_start, invocation, store>>

\* a thread of the pool takes a queued work item and calls image_to_video;
\* the pool never runs more than max_workers threads
WorkerStart(p) ==
  /\ futures[p] = "queued"
  /\ Cardinality(Running) < max_workers
  /\ futures' = [futures EXCEPT ![p] = "running"]
  /\ UNCHANGED <<batchLocals, pc, zoom_distribution, results, i, j,
                 max_workers, wargs, exc, ret, batch, histVars>>

\* image_to_video has uploaded its video under s3_key = f"{path}{output_filename}"
\* (lines 835-838) and returns its result dict (lines 843-848)
WorkerReturn(p) ==
  /\ futures[p] = "running"
  /\ futures' = [futures EXCEPT ![p] = "ok"]
  /\ finish_order' = Append(finish_order, p)
  /\ store' = store \cup {S3Key(path, VideoFilename(wargs[p].video_index))}
  /\ UNCHANGED <<batchLocals, pc, zoom_distribution, results, i, j,
                 max_workers, wargs, exc, ret, batch, issued, issued_count,
                 first_start, invocation>>

\* image_to_video raises (download, FFmpeg or upload failure)
WorkerRaise(p) ==
  /\ futures[p] = "running"
  /\ futures' = [futures EXCEPT ![p] = "failed"]
  /\ finish_order' = Append(finish_order, p)
  /\ UNCHANGED <<batchLocals, pc, zoom_distribution, results, i, j,
                 max_workers, wargs, exc, ret, batch, issued, issued_count,
                 first_start, invocation, store>>

\* a plausible slip: collect in completion order (as_completed)
CollectPositionAsCompleted ==
  LET uncollected == {p \in BatchPositions :
                        /\ futures[p] = "ok"
                        /\ \A q \in DOMAIN results : results[q].item # wargs[p].image_id}
  IN IF uncollected = {} THEN i + j + 1
     ELSE CHOOSE p \in uncollected :
            \A q \in DOMAIN finish_order :
              finish_order[q] \in uncollected => \E r \in 1..q : finish_order[r] = p

\* a plausible slip: the failure that ended first is taken (as_completed),
\* whatever its place in the chunk
CollectPositionFirstFailed ==
  LET failed == {q \in DOMAIN finish_order :
                   /\ finish_order[q] \in BatchPositions
                   /\ futures[finish_order[q]] = "failed"}
  IN IF failed = {} THEN i + j + 1
     ELSE finish_order[CHOOSE q \in failed : \A r \in failed : q <= r]

\* the future the collection loop waits on at its j-th iteration: futures[j]
CollectPosition == i + j + 1

\* lines 971-976: future.result() of the j-th future returns; append it
CollectResult ==
  /\ pc = "collect"
  /\ futures[CollectPosition] = "ok"
  /\ results' = Append(results, WorkerResult(wargs[CollectPosition]))
  /\ IF j + 1 < Len(batch)
     THEN /\ j' = j + 1
          /\ pc' = "collect"
     ELSE /\ j' = 0
          /\ pc' = "exit"
  /\ UNCHANGED <<batchLocals, zoom_distribution, i, max_workers, futures,
                 wargs, exc, ret, batch, histVars>>

\* a plausible slip: log the failure and go on with the next future
CollectErrorContinue ==
  /\ pc = "collect"
  /\ futures[CollectPosition] = "failed"
  /\ IF j + 1 < Len(batch)
     THEN /\ j' = j + 1
          /\ pc' = "collect"
     ELSE /\ j' = 0
          /\ pc' = "exit"
  /\ UNCHANGED <<batchLocals, zoom_distribution, results, i, max_workers,
                 futures, wargs, exc, ret, batch, histVars>>

\* a plausible slip: a failed item is submitted again
CollectErrorRetry ==
  /\ pc = "collect"
  /\ futures[CollectPosition] = "failed"
  /\ futures' = [futures EXCEPT ![CollectPosition] = "queued"]
  /\ UNCHANGED <<batchLocals, pc, zoom_distribution, results, i, j,
                 max_workers, wargs, exc, ret, batch, histVars>>

\* lines 977-979: future.result() re-raises the worker's exception; the
\* except clause logs it and raises again
CollectError ==
  /\ pc = "collect"
  /\ futures[CollectPosition] = "failed"
  /\ exc' = TRUE
  /\ pc' = "exit"
  /\ UNCHANGED <<batchLocals, zoom_distribution, results, i, j, max_workers,
                 futures, wargs, ret, batch, histVars>>

\* a plausible slip: shutdown(wait=False), the scope is left at once
ExecutorExitReadyNoWait == TRUE

\* a plausible slip: shutdown(wait=True, cancel_futures=True), which drops the
\* work items no thread has taken yet and waits for the running ones only
ExecutorExitReadyCancelPending == \A p \in BatchPositions : futures[p] # "running"

\* leaving the with-block (line 954): ThreadPoolExecutor.__exit__ is
\* shutdown(wait=True), it returns when every submitted work item has run
ExecutorExitReady == \A p \in BatchPositions : Finished(p)

\* a plausible slip: the chunk is submitted and the loop goes on without
\* waiting for its futures
ExecutorExitNoWait ==
  /\ pc = "collect"
  /\ i' = i + BATCH_SIZE
  /\ pc' = "loop"
  /\ UNCHANGED <<batchLocals, zoom_distribution, results, j, max_workers,
                 futures, wargs, exc, ret, batch, histVars>>

\* the with-block is left normally: line 981, next chunk
ExecutorExit ==
  /\ pc = "exit"
  /\ ~exc
  /\ ExecutorExitReady
  /\ i' = i + BATCH_SIZE
  /\ pc' = "loop"
  /\ UNCHANGED <<batchLocals, zoom_distribution, results, j, max_workers,
                 futures, wargs, exc, ret, batch, histVars>>

\* a plausible slip: the partial-success variant, which returns what was
\* collected instead of letting the exception out
ExecutorExitPartial ==
  /\ pc = "exit"
  /\ exc
  /\ ExecutorExitReady
  /\ ret' = [total |-> total, processed |-> Len(results), videos |-> results]
  /\ pc' = "done"
  /\ UNCHANGED <<batchLocals, zoom_distribution, results, i, j, max_workers,
                 futures, wargs, exc, batch, histVars>>

\* a plausible slip: a failed batch removes what it has published
ExecutorExitRaiseRollback ==
  /\ pc = "exit"
  /\ exc
  /\ ExecutorExitReady
  /\ pc' = "raised"
  /\ store' = {k \in store : k[2][2] <= start_index}
  /\ UNCHANGED <<batchLocals, zoom_distribution, results, i, j, max_workers,
                 futures, wargs, exc, ret, batch, finish_order, issued,
                 issued_count, first_start, invocation>>

\* the with-block is left by the exception: it propagates to the caller; no
\* statement on this path (lines 977-979) touches the object store
ExecutorExitRaise ==
  /\ pc = "exit"
  /\ exc
  /\ ExecutorExitReady
  /\ pc' = "raised"
  /\ UNCHANGED <<batchLocals, zoom_distribution, results, i, j, max_workers,
                 futures, wargs, exc, ret, batch, histVars>>

\* lines 983-990: the chunk loop is exhausted, return the result dict
ReturnResult ==
  /\ pc = "loop"
  /\ ~(i < total)
  /\ ret' = [total |-> total, processed |-> Len(results), videos |-> results]
  /\ pc' = "done"
  /\ UNCHANGED <<batchLocals, zoom_distribution, results, i, j, max_workers,
                 futures, wargs, exc, batch, histVars>>

NoReturn == [total |-> 0, processed |-> 0, videos |-> <<>>]

\* zoom_types values a job can carry
BatchZoomInputs == {None, <<"zoomout", "zoomin">>}

\* the locals of a fresh call of process_img2vid_batch
FreshCall(n) ==
  /\ images' = [q \in 1..n |-> q]
  /\ pc' = "handler"
  /\ zoom_distribution' = <<>>
  /\ results' = <<>>
  /\ i' = 0
  /\ j' = 0
  /\ max_workers' = 0
  /\ futures' = [q \in 1..n |-> "none"]
  /\ wargs' = [q \in 1..n |-> NoArgs]
  /\ exc' = FALSE
  /\ ret' = NoReturn
  /\ batch' = <<>>
  /\ finish_order' = <<>>

\* the next img2vid job arrives at handler (lines 2057-2061): the second of
\* two cooperating jobs, its start_index is the first job's start_index plus
\* the first job's image count
NextInvocation ==
  /\ pc = "done"
  /\ invocation = "first"
  /\ invocation' = "second"
  /\ start_index' = start_index + total
  /\ zoom_types' \in BatchZoomInputs
  /\ path' \in PathInputs
  /\ \E n \in 0..MaxItems : FreshCall(n)
  /\ UNCHANGED <<BATCH_SIZE, issued, issued_count, first_start, store>>

BatchIdle ==
  /\ images = <<>>
  /\ zoom_types = None
  /\ start_index = 0
  /\ path = None
  /\ BATCH_SIZE = 2
  /\ pc = "idle"
  /\ zoom_distribution = <<>>
  /\ results = <<>>
  /\ i = 0
  /\ j = 0
  /\ max_workers = 0
  /\ futures = <<>>
  /\ wargs = <<>>
  /\ exc = FALSE
  /\ ret = NoReturn
  /\ batch = <<>>
  /\ finish_order = <<>>
  /\ issued = {}
  /\ issued_count = 0
  /\ first_start = 0
  /\ invocation = "none"
  /\ store = {}

DistIdle ==
  /\ dpc = "idle"
  /\ d_zoom_types = <<>>
  /\ d_image_count = 0
  /\ distribution = <<>>
  /\ distribution_again = <<>>

SeqIdle ==
  /\ spc = "idle"
  /\ video_durations = <<>>
  /\ audio_duration = 0
  /\ video_sequence = <<>>
  /\ accumulated_duration = 0
  /\ video_index = 0
  /\ segment_count = 0

\* an img2vid job arrives at handler; BATCH_SIZE is in [2, 16] (lines 138, 148)
Init ==
  /\ \E n \in 0..MaxItems :
       /\ images = [q \in 1..n |-> q]
       /\ futures = [q \in 1..n |-> "none"]
       /\ wargs = [q \in 1..n |-> NoArgs]
  /\ zoom_types \in BatchZoomInputs
  /\ start_index \in 0..MaxStart
  /\ path \in PathInputs
  /\ BATCH_SIZE \in 2..MaxBatch
  /\ pc = "handler"
  /\ zoom_distribution = <<>>
  /\ results = <<>>
  /\ i = 0
  /\ j = 0
  /\ max_workers = 0
  /\ exc = FALSE
  /\ ret = NoReturn
  /\ batch = <<>>
  /\ finish_order = <<>>
  /\ issued = {}
  /\ issued_count = 0
  /\ first_start = start_index
  /\ invocation = "first"
  /\ store = {}
  /\ DistIdle
  /\ SeqIdle
  /\ ProbeIdle
  /\ WorkerIdle
  /\ CyclicIdle
  /\ S3Idle
  /\ ChunkIdle

Next ==
  \/ (HandlerImg2Vid /\ UNCHANGED nonBatchVars)
  \/ (BatchStart /\ UNCHANGED nonBatchVars)
  \/ (BeginChunk /\ UNCHANGED nonBatchVars)
  \/ (Submit /\ UNCHANGED nonBatchVars)
  \/ (\E p \in DOMAIN futures : WorkerStart(p) /\ UNCHANGED nonBatchVars)
  \/ (\E p \in DOMAIN futures : WorkerReturn(p) /\ UNCHANGED nonBatchVars)
  \/ (\E p \in DOMAIN futures : WorkerRaise(p) /\ UNCHANGED nonBatchVars)
  \/ (CollectResult /\ UNCHANGED nonBatchVars)
  \/ (CollectError /\ UNCHANGED nonBatchVars)
  \/ (ExecutorExit /\ UNCHANGED nonBatchVars)
  \/ (ExecutorExitRaise /\ UNCHANGED nonBatchVars)
  \/ (ReturnResult /\ UNCHANGED nonBatchVars)
  \/ (NextInvocation /\ UNCHANGED nonBatchVars)

Spec == Init /\ [][Next]_vars

(* ------------------- properties of the batch scheduler ---------------- *)
\* 0-based number of the chunk that holds image position p
ChunkOf(p) == (p - 1) \div BATCH_SIZE

\* C1: when all workers succeed, the q-th entry of the returned 'videos' list
\* is the outcome of the worker of the q-th input image, and the list collected
\* so far is at every moment the outcomes of the first images in input order,
\* whatever the order in which the workers finished.
C1_OrderPreserved ==
  /\ \A q \in DOMAIN results :
        /\ results[q] = WorkerResult(wargs[q])
        /\ results[q].item = images[q]
  /\ pc = "done" =>
        /\ Len(ret.videos) = total
        /\ \A q \in 1..total :
              /\ ret.videos[q] = WorkerResult(wargs[q])
              /\ ret.videos[q].item = images[q]

\* a batch of several chunks has returned although, inside a chunk, a worker
\* of a later image finished before the worker of an earlier image
C1_Witness ==
  /\ pc = "done"
  /\ total > BATCH_SIZE
  /\ \E a, b \in DOMAIN finish_order :
        /\ a < b
        /\ finish_order[a] > finish_order[b]

\* C2: fail-fast: once the worker of an image of chunk c has failed, no
\* image of a later chunk has been submitted, let alone had its worker invoked.
C2_FailFast ==
  \A p, q \in DOMAIN futures :
    (futures[p] = "failed" /\ ChunkOf(q) > ChunkOf(p))
      => (futures[q] = "none" /\ ~Invoked(q))

\* item 2 of chunk 1 of 2 failed and the batch has raised: chunk 2 untouched
C2_Witness ==
  /\ pc = "raised"
  /\ BATCH_SIZE = 2
  /\ total = 4
  /\ futures[1] = "ok"
  /\ futures[2] = "failed"
  /\ ~Invoked(3) /\ ~Invoked(4)

\* C3: process_img2vid_batch returns only a complete result (total =
\* processed = number of videos = N, every worker succeeded); in every other
\* state, after raising in particular, it has returned nothing.
C3_AllOrNothing ==
  /\ pc = "done" =>
        /\ ret.total = total
        /\ ret.processed = total
        /\ Len(ret.videos) = total
        /\ \A p \in DOMAIN futures : futures[p] = "ok"
  /\ pc # "done" => ret = NoReturn

\* the batch raised after some results had already been collected
C3_Witness ==
  /\ pc = "raised"
  /\ Len(results) > 0
  /\ Len(results) < total
  /\ ret = NoReturn

C16_ChunksSequential ==
  \A p, q \in DOMAIN futures :
    (ChunkOf(q) > ChunkOf(p) /\ futures[q] # "none") =>
      /\ futures[p] = "ok"
      /\ p <= Len(results)
      /\ results[p].item = images[p]

\* a worker of the second chunk is running
C16_Witness ==
  \E q \in DOMAIN futures : ChunkOf(q) = 1 /\ futures[q] = "running"

\* C17: a failing worker does not cancel the other workers launched in its
\* chunk: no future is ever cancelled, and when the batch raises every worker
\* submitted in the failing chunk has run to its end (returned or raised).
C17_NoCancellation ==
  /\ \A p \in DOMAIN futures :
        futures[p] \in {"none", "queued", "running", "ok", "failed"}
  /\ pc = "raised" =>
        \A p \in BatchPositions : futures[p] \in {"ok", "failed"}

\* the batch raised, and in the failing chunk a worker returned normally
\* after another worker had failed
C17_Witness ==
  /\ pc = "raised"
  /\ \E a, b \in DOMAIN finish_order :
        /\ a < b
        /\ finish_order[a] \in BatchPositions
        /\ finish_order[b] \in BatchPositions
        /\ futures[finish_order[a]] = "failed"
        /\ futures[finish_order[b]] = "ok"

\* C18: when the batch fails in chunk c, the outputs the earlier chunks have
\* published are still in the object store: nothing is deleted or rolled back.
C18_PublishedOutputsRemain ==
  pc = "raised" =>
    \A p \in DOMAIN futures :
      ChunkOf(p) < ChunkOf(i + 1) =>
        S3Key(path, VideoFilename(start_index + p)) \in store

\* the batch failed in its second chunk after the first chunk had published
C18_Witness ==
  /\ pc = "raised"
  /\ i > 0
  /\ store # {}
  /\ \E p \in BatchPositions : futures[p] = "failed"

\* C23: no retry: within one batch run the worker of an item is invoked at
\* most once (a future only moves forward: submitted, running, ended, and an
\* ended one stays as it ended, a failed one in particular), and when the
\* batch succeeds the worker of every item has run exactly once, to success.
C23_NoRetry ==
  /\ [](pc = "done" => \A p \in DOMAIN futures : futures[p] = "ok")
  /\ [][invocation' = invocation =>
          \A p \in DOMAIN futures :
            /\ futures[p] = "queued" => futures'[p] \in {"queued", "running"}
            /\ futures[p] = "running" => futures'[p] \in {"running", "ok", "failed"}
            /\ futures[p] \in {"ok", "failed"} => futures'[p] = futures[p]]_vars

\* the batch has raised; a worker failed once and was not run again, and
\* every item submitted was handed to a worker exactly once
C23_Witness ==
  /\ pc = "raised"
  /\ \E p \in DOMAIN futures : futures[p] = "failed"
  /\ Len(finish_order) = Cardinality({p \in DOMAIN futures : Invoked(p)})
  /\ \A a, b \in DOMAIN finish_order : a # b => finish_order[a] # finish_order[b]

\* C25: when the batch call has returned or raised, no worker of the batch is
\* still running or waiting to run: the error is raised only after every
\* worker launched in the failing chunk has finished.
C25_NoWorkerOutlivesBatch ==
  pc \in {"done", "raised"} =>
    /\ Running = {}
    /\ \A p \in DOMAIN futures : futures[p] # "queued"

\* the batch raised for the item the collection loop was waiting on, and the
\* last worker to finish was one of its later siblings
C25_Witness ==
  /\ pc = "raised"
  /\ finish_order # <<>>
  /\ futures[i + j + 1] = "failed"
  /\ finish_order[Len(finish_order)] > i + j + 1

\* C26: the error that aborts the batch is that of the failing item with the
\* lowest index in its chunk (the future the collection loop was waiting on),
\* whichever worker failed first in time; the results of the items before it
\* have been collected, those of the items after it never are.
C26_LowestIndexError ==
  (exc /\ pc \in {"exit", "raised"}) =>
    /\ futures[i + j + 1] = "failed"
    /\ \A p \in BatchPositions : p < i + j + 1 => futures[p] = "ok"
    /\ Len(results) = i + j
    /\ \A q \in DOMAIN results : results[q].item = images[q]

\* two workers of the chunk failed, the one of the later item first in time;
\* the batch raised with the error of the earlier item
C26_Witness ==
  /\ pc = "raised"
  /\ \E a, b \in DOMAIN finish_order :
        /\ a < b
        /\ finish_order[b] = i + j + 1
        /\ finish_order[a] \in BatchPositions
        /\ finish_order[a] > finish_order[b]
        /\ futures[finish_order[a]] = "failed"

\* C4: at every moment at most BATCH_SIZE worker invocations are in progress.
C4_BoundedConcurrency == Cardinality(Running) <= BATCH_SIZE

\* the limit is reached by the workers of a chunk that is not the first one
C4_Witness ==
  /\ Cardinality(Running) = BATCH_SIZE
  /\ i > 0
  /\ total >= i + BATCH_SIZE

\* C5: the worker of the image at 0-based position p - 1 gets video index
\* start_index + (p - 1) + 1, which is also its result id and output name; over
\* two cooperating invocations (the second starting at the first start plus
\* the first image count) the indices handed out so far always form
\* the range first_start + 1 .. first_start + (number of hand-outs): each new
\* index is the next integer, so they increase without gap or repeat.
C5_GlobalIndex ==
  /\ \A p \in DOMAIN futures :
        futures[p] # "none" => wargs[p].video_index = start_index + (p - 1) + 1
  /\ \A q \in DOMAIN results :
        /\ results[q].id = Str(start_index + q)
        /\ results[q].filename = VideoFilename(start_index + q)
  /\ issued = (first_start + 1) .. (first_start + issued_count)
  /\ first_start + issued_count
       = start_index + Cardinality({p \in DOMAIN futures : futures[p] # "none"})

\* a second cooperating invocation with several chunks has returned
C5_Witness ==
  /\ invocation = "second"
  /\ pc = "done"
  /\ start_index > first_start
  /\ total > BATCH_SIZE
  /\ issued_count > total

(* ========================= distribute_zoom_types ====================== *)
\* every list of at most n entries drawn from set S
ListsUpTo(S, n) == UNION {[1..k -> S] : k \in 0..n}

\* a direct call distribute_zoom_types(zoom_types, image_count); the list may
\* be empty and may name a zoom type more than once
InitDist ==
  /\ dpc = "call"
  /\ d_zoom_types \in ListsUpTo(ZoomNames, MaxTypes)
  /\ d_image_count \in 0..MaxCount
  /\ distribution = <<>>
  /\ distribution_again = <<>>
  /\ BatchIdle
  /\ SeqIdle
  /\ ProbeIdle
  /\ WorkerIdle
  /\ CyclicIdle
  /\ S3Idle
  /\ ChunkIdle

\* lines 888-908: the whole function, with the order random.shuffle leaves
DistCall ==
  /\ dpc = "call"
  /\ distribution' \in DistributeZoomTypes(d_zoom_types, d_image_count)
  /\ dpc' = "returned"
  /\ UNCHANGED <<d_zoom_types, d_image_count, distribution_again>>

\* the function is called once more with the same arguments; it has no seed
\* parameter and random.shuffle (line 904) draws from the interpreter-wide
\* generator, whose state the arguments do not determine
DistCallAgain ==
  /\ dpc = "returned"
  /\ distribution_again' \in DistributeZoomTypes(d_zoom_types, d_image_count)
  /\ dpc' = "returned_twice"
  /\ UNCHANGED <<d_zoom_types, d_image_count, distribution>>

NextDist ==
  \/ (DistCall /\ UNCHANGED nonDistVars)
  \/ (DistCallAgain /\ UNCHANGED nonDistVars)

SpecDist == InitDist /\ [][NextDist]_vars

\* number of copies the build loop makes for list position t (1-based)
Allocated(t, k, n) == (n \div k) + (IF t - 1 < n % k THEN 1 ELSE 0)

RECURSIVE SumAllocated(_, _, _)
\* copies made for the positions in set T
SumAllocated(T, k, n) ==
  IF T = {} THEN 0
  ELSE LET t == CHOOSE x \in T : TRUE
       IN Allocated(t, k, n) + SumAllocated(T \ {t}, k, n)

\* the entries of the list are pairwise distinct
Distinct(zt) == \A a, b \in DOMAIN zt : a # b => zt[a] # zt[b]

\* C24: two calls of the distributor with the same variant list, the same n
\* and the same seed return the same sequence (the code takes no seed, so:
\* two calls with the same arguments).
C24_SameSeedSameSequence ==
  dpc = "returned_twice" => distribution_again = distribution

C10_DefaultFallback ==
  (dpc = "returned" /\ (Len(d_zoom_types) = 0 \/ d_image_count = 0)) =>
    /\ Len(distribution) = d_image_count
    /\ \A q \in DOMAIN distribution : distribution[q] = "zoomin"

\* distribute_zoom_types([], 5) has returned five entries
C10_Witness ==
  /\ dpc = "returned"
  /\ d_zoom_types = <<>>
  /\ d_image_count = 5
  /\ Len(distribution) = 5

(* ============ concatenate_videos_cyclic, Step 5: the sequence ========= *)
(* Durations are Python floats.  The model keeps the arithmetic of a       *)
(* binary floating-point format with Prec significand bits and             *)
(* round-to-nearest, ties-to-even: a value is a natural number (a count of *)
(* the smallest step) with at most Prec significant bits, and the result   *)
(* of + and - is the exact result rounded to such a value.                 *)
RECURSIVE Pow2(_)
Pow2(n) == IF n = 0 THEN 1 ELSE 2 * Pow2(n - 1)

RECURSIVE Exponent(_, _)
\* the least e >= e0 with x < 2^(Prec + e): the step of x is 2^e
Exponent(x, e0) == IF x < Pow2(Prec + e0) THEN e0 ELSE Exponent(x, e0 + 1)

\* rounding of the exact value x >= 0 to the format
Fl(x) ==
  LET u == Pow2(Exponent(x, 0))
      q == x \div u
      r == x % u
  IN IF 2 * r > u \/ (2 * r = u /\ q % 2 = 1) THEN (q + 1) * u ELSE q * u

\* the values of the format up to MaxVal
Floats == {x \in 0..MaxVal : Fl(x) = x}

\* float addition, and float subtraction a - b for a >= b
FlAdd(a, b) == Fl(a + b)
FlSub(a, b) == Fl(a - b)

\* a plausible slip: a clip exactly as long as the rest is trimmed
UseFullVideoStrict(remaining_audio, current_video_duration) ==
  remaining_audio > current_video_duration

\* line 1610: remaining_audio >= current_video_duration
UseFullVideo(remaining_audio, current_video_duration) ==
  remaining_audio >= current_video_duration

\* a plausible slip: the index stops at the last clip instead of wrapping
NextVideoIndexNoWrap(v, n) == Min(v + 1, n - 1)

\* line 1625: (video_index + 1) % len(files_to_concat)
NextVideoIndex(v, n) == (v + 1) % n

\* lines 1606-1608: the clip under video_index (0-based) and what is left
current_video_duration == video_durations[video_index + 1]
remaining_audio == FlSub(audio_duration, accumulated_duration)

\* an entry (current_video, duration_to_use, is_partial) of video_sequence;
\* the clip file is named by its 0-based index in files_to_concat
Segment(v, d, partial) == [video |-> v, duration |-> d, partial |-> partial]

\* a job that reached Step 5: len(video_urls) >= 1 (lines 2174-2178), the
\* probed durations and the audio duration are floats >= 0
InitSeq ==
  /\ spc = "calc"
  /\ \E k \in 1..MaxClips : video_durations \in [1..k -> Floats]
  /\ audio_duration \in Floats
  /\ video_sequence = <<>>
  /\ accumulated_duration = 0
  /\ video_index = 0
  /\ segment_count = 0
  /\ BatchIdle
  /\ DistIdle
  /\ ProbeIdle
  /\ WorkerIdle
  /\ CyclicIdle
  /\ S3Idle
  /\ ChunkIdle

\* lines 1605-1615 and 1625: an iteration that uses the full clip
SeqFull ==
  /\ spc = "calc"
  /\ Len(video_sequence) < MaxSegments
  /\ accumulated_duration < audio_duration
  /\ UseFullVideo(remaining_audio, current_video_duration)
  /\ video_sequence' = Append(video_sequence,
                         Segment(video_index, current_video_duration, FALSE))
  /\ accumulated_duration' = FlAdd(accumulated_duration, current_video_duration)
  /\ segment_count' = segment_count + 1
  /\ video_index' = NextVideoIndex(video_index, Len(video_durations))
  /\ UNCHANGED <<spc, video_durations, audio_duration>>

\* lines 1605-1609 and 1616-1622: the iteration that trims, then break
SeqPartial ==
  /\ spc = "calc"
  /\ Len(video_sequence) < MaxSegments
  /\ accumulated_duration < audio_duration
  /\ ~UseFullVideo(remaining_audio, current_video_duration)
  /\ video_sequence' = Append(video_sequence,
                         Segment(video_index, remaining_audio, TRUE))
  /\ accumulated_duration' = FlAdd(accumulated_duration, remaining_audio)
  /\ segment_count' = segment_count + 1
  /\ spc' = "done"
  /\ UNCHANGED <<video_durations, audio_duration, video_index>>

\* line 1605: the loop condition is false; line 1627
SeqLoopExit ==
  /\ spc = "calc"
  /\ ~(accumulated_duration < audio_duration)
  /\ spc' = "done"
  /\ UNCHANGED <<video_durations, audio_duration, video_sequence,
                 accumulated_duration, video_index, segment_count>>

NextSeq ==
  \/ (SeqFull /\ UNCHANGED nonSeqVars)
  \/ (SeqPartial /\ UNCHANGED nonSeqVars)
  \/ (SeqLoopExit /\ UNCHANGED nonSeqVars)

SpecSeq == InitSeq /\ [][NextSeq]_vars

\* the loop is straight-line code of one thread: while an iteration or the
\* exit is possible, it is taken
SpecSeqLive == InitSeq /\ [][NextSeq]_vars /\ WF_vars(NextSeq)

(* ---------------------- properties of the sequencer ------------------- *)
\* the clip list is not empty, every duration and the target are positive
SeqInputsPositive ==
  /\ Len(video_durations) >= 1
  /\ \A c \in DOMAIN video_durations : video_durations[c] > 0
  /\ audio_duration > 0

RECURSIVE FloatSum(_)
\* sum(duration for segment in plan), added left to right as floats
FloatSum(plan) ==
  IF plan = <<>> THEN 0
  ELSE FlAdd(FloatSum(SubSeq(plan, 1, Len(plan) - 1)), plan[Len(plan)].duration)

\* C6: for a non-empty clip list with positive durations and a target T > 0
\* the play durations of the computed plan sum exactly to T (the sum taken
\* as the program takes it, in float arithmetic from the first segment on).
C6_SumExact ==
  (spc = "done" /\ SeqInputsPositive) =>
    FloatSum(video_sequence) = audio_duration

\* the plan has reached MaxSegments entries and accumulated_duration grew
\* over the last full cycle of clips: the loop is still making progress, the
\* model does not follow it further
SeqCutShort ==
  /\ spc = "calc"
  /\ Len(video_sequence) = MaxSegments
  /\ accumulated_duration >
       FloatSum(SubSeq(video_sequence, 1,
                       Len(video_sequence) - Len(video_durations)))

\* with clips of positive duration the loop ends (or is cut short by the
\* bound while still making progress)
C28_PositiveClipsEnd ==
  (\A c \in DOMAIN video_durations : video_durations[c] > 0) =>
    <>(spc = "done" \/ SeqCutShort)

\* with T > 0 and every clip of duration 0 the loop never ends
C28_ZeroClipsNeverEnd ==
  (audio_duration > 0 /\ \A c \in DOMAIN video_durations : video_durations[c] = 0)
    => [](spc # "done")

C7_TrimOnlyLast ==
  /\ \A q \in DOMAIN video_sequence :
       LET seg == video_sequence[q]
       IN IF seg.partial
          THEN /\ q = Len(video_sequence)
               /\ spc = "done"
               /\ seg.duration < video_durations[seg.video + 1]
          ELSE seg.duration = video_durations[seg.video + 1]
  /\ Cardinality({q \in DOMAIN video_sequence : video_sequence[q].partial}) <= 1

\* clips [4, 3], T = 10: (clip0, 4, full), (clip1, 3, full), (clip0, 3, trimmed)
C7_Witness ==
  /\ spc = "done"
  /\ video_durations = <<4, 3>>
  /\ audio_duration = 10
  /\ video_sequence = <<Segment(0, 4, FALSE), Segment(1, 3, FALSE),
                        Segment(0, 3, TRUE)>>

\* C8: segment q (0-based) of the plan references clip q mod K.
C8_CyclicOrder ==
  \A q \in DOMAIN video_sequence :
    video_sequence[q].video = (q - 1) % Len(video_durations)

\* clips [5], T = 12: clip0 full, clip0 full, clip0 trimmed to 2; and the
\* two-clip list of C7 wraps around to clip0 as well
C8_Witness ==
  /\ spc = "done"
  /\ video_durations = <<5>>
  /\ audio_duration = 12
  /\ video_sequence = <<Segment(0, 5, FALSE), Segment(0, 5, FALSE),
                        Segment(0, 2, TRUE)>>


\* the exact total duration of the first m clips taken in cyclic order
RECURSIVE CyclicTotal(_)
CyclicTotal(m) ==
  IF m = 0 THEN 0
  ELSE CyclicTotal(m - 1) + video_durations[((m - 1) % Len(video_durations)) + 1]

\* C22: no plan contains a segment of zero or negative duration, and when T
\* is the total duration of a whole number m of clips taken in cyclic order
\* the plan is these m full clips, with no trailing trimmed segment.
C22_NoDegenerateSegment ==
  spc = "done" =>
    /\ \A q \in DOMAIN video_sequence : video_sequence[q].duration > 0
    /\ \A m \in 1..MaxSegments :
         (audio_duration > 0 /\ CyclicTotal(m) = audio_duration) =>
           \A q \in DOMAIN video_sequence : ~video_sequence[q].partial

\* ======================================================================
\* Resource probe: get_container_cpu_quota and calculate_optimal_batch_size
\* ======================================================================

MaxCpu == 30        \* largest vCPU count a source reports
MaxOsCpu == 12      \* largest OS logical core count
MaxQuota == 4       \* largest cgroup quota, in units of the smallest period

\* int(x / y) and int(x * 1.5): Python's int() truncates toward zero
TruncDiv(x, y) ==
  IF (x >= 0) = (y > 0) THEN (IF x >= 0 THEN x ELSE -x) \div (IF y > 0 THEN y ELSE -y)
  ELSE -((IF x >= 0 THEN x ELSE -x) \div (IF y > 0 THEN y ELSE -y))

\* Texts (an environment value, a token of a file) are pairs: Str(n) is the
\* decimal text of n, the others are texts that are not numbers
Unset == <<"None", 0>>          \* os.getenv found no variable
EmptyText == <<"", 0>>
Garbage == <<"abc", 0>>
MaxText == <<"max", 0>>

\* int(s) of a text: the decimal texts parse, any other text raises ValueError
IsDecimal(s) == s[1] = "str"
ParseInt(s) == s[2]

\* the value one source yields: Value(n) returns n, Skip goes on to the next
\* source, Raise leaves through the except clause
Value(n) == [kind |-> "value", v |-> n]
Skip == [kind |-> "skip", v |-> 0]
Raise == [kind |-> "raise", v |-> 0]
NoQuota == [kind |-> "None", v |-> 0]

FromEnv ==
  IF env_cpu_count = Unset \/ env_cpu_count = EmptyText THEN Skip
  ELSE IF IsDecimal(env_cpu_count) THEN Value(ParseInt(env_cpu_count))
  ELSE Raise

QuotaOverPeriod(quota, period) ==
  IF ~IsDecimal(quota) \/ ~IsDecimal(period) THEN Raise
  ELSE IF ParseInt(period) = 0 THEN Raise
  ELSE Value(TruncDiv(ParseInt(quota), ParseInt(period)))

FromCgroupV2 ==
  IF ~cgroup_v2.exists THEN Skip
  ELSE IF Len(cgroup_v2.parts) # 2 THEN Skip
  ELSE IF cgroup_v2.parts[1] = MaxText THEN Skip
  ELSE QuotaOverPeriod(cgroup_v2.parts[1], cgroup_v2.parts[2])

FromCgroupV1 ==
  IF ~cgroup_v1.exists THEN Skip
  ELSE IF ~IsDecimal(cgroup_v1.quota) THEN Raise
  ELSE IF ~IsDecimal(cgroup_v1.period) THEN Raise
  ELSE IF ParseInt(cgroup_v1.quota) > 0
       THEN QuotaOverPeriod(cgroup_v1.quota, cgroup_v1.period)
  ELSE Skip

\* the three container sources in the order the code tries them
ContainerSources ==
  << [name |-> "env", r |-> FromEnv],
     [name |-> "cgroup_v2", r |-> FromCgroupV2],
     [name |-> "cgroup_v1", r |-> FromCgroupV1] >>

\* the first source that does not skip, 0 if all of them skip
FirstAnswer ==
  IF \E k \in 1..3 : ContainerSources[k].r.kind # "skip"
  THEN CHOOSE k \in 1..3 :
         /\ ContainerSources[k].r.kind # "skip"
         /\ \A m \in 1..(k - 1) : ContainerSources[m].r.kind = "skip"
  ELSE 0

get_container_cpu_quota ==
  /\ ppc = "call"
  /\ IF FirstAnswer # 0 /\ ContainerSources[FirstAnswer].r.kind = "value"
     THEN /\ container_vcpus' = ContainerSources[FirstAnswer].r
          /\ detection_source' = ContainerSources[FirstAnswer].name
     ELSE /\ container_vcpus' = NoQuota
          /\ detection_source' = "none"
  /\ ppc' = "quota"
  /\ batch_size' = batch_size
  /\ UNCHANGED <<env_cpu_count, cgroup_v2, cgroup_v1, os_cpu_count>>

\* int(cpu_count * 1.5)
Optimal(cpu_count) == TruncDiv(3 * cpu_count, 2)

\* max(2, min(16, optimal))
ClampUnbounded(optimal) == IF optimal < 2 THEN 2 ELSE optimal
Clamp(optimal) == IF Min(16, optimal) < 2 THEN 2 ELSE Min(16, optimal)

calculate_optimal_batch_size ==
  /\ ppc = "quota"
  /\ IF container_vcpus # NoQuota
     THEN /\ batch_size' = Clamp(Optimal(container_vcpus.v))
          /\ detection_source' = detection_source
     ELSE IF os_cpu_count.raises
     THEN /\ batch_size' = 4
          /\ detection_source' = "fallback"
     ELSE /\ batch_size' = Clamp(Optimal(os_cpu_count.n))
          /\ detection_source' = "os"
  /\ ppc' = "returned"
  /\ UNCHANGED <<env_cpu_count, cgroup_v2, cgroup_v1, os_cpu_count,
                 container_vcpus>>

CpuCounts == (-2..11) \cup {30, MaxCpu}
Quotas == -1..MaxQuota
Periods == {0, 1, 2}

EnvValues == {Unset, EmptyText, Garbage} \cup {Str(n) : n \in CpuCounts}
QuotaTexts == {Garbage} \cup {Str(n) : n \in Quotas}
PeriodTexts == {Garbage} \cup {Str(n) : n \in Periods}
CgroupV2Values ==
  {[exists |-> FALSE, parts |-> <<>>], [exists |-> TRUE, parts |-> <<Garbage>>]}
  \cup {[exists |-> TRUE, parts |-> <<q, p>>] :
          q \in {MaxText} \cup QuotaTexts, p \in PeriodTexts}
CgroupV1Values ==
  {[exists |-> FALSE, quota |-> EmptyText, period |-> EmptyText]}
  \cup {[exists |-> TRUE, quota |-> q, period |-> p] :
          q \in QuotaTexts, p \in PeriodTexts}
OsValues ==
  {[raises |-> TRUE, n |-> 0]}
  \cup {[raises |-> FALSE, n |-> n] : n \in {1, 3, MaxOsCpu}}

InitProbe ==
  /\ env_cpu_count \in EnvValues
  /\ cgroup_v2 \in CgroupV2Values
  /\ cgroup_v1 \in CgroupV1Values
  /\ os_cpu_count \in OsValues
  /\ ppc = "call"
  /\ container_vcpus = NoQuota
  /\ detection_source = "none"
  /\ batch_size = 0
  /\ BatchIdle
  /\ DistIdle
  /\ SeqIdle
  /\ WorkerIdle
  /\ CyclicIdle
  /\ S3Idle
  /\ ChunkIdle

NextProbe ==
  \/ (get_container_cpu_quota /\ UNCHANGED nonProbeVars)
  \/ (calculate_optimal_batch_size /\ UNCHANGED nonProbeVars)

SpecProbe == InitProbe /\ [][NextProbe]_vars

\* the vCPU count the batch size was computed from
DetectedCount ==
  IF container_vcpus # NoQuota THEN container_vcpus.v ELSE os_cpu_count.n

\* max(2, min(16, trunc(1.5 * n))) written out by cases
ExpectedBatchSize(n) ==
  IF n <= 1 THEN 2 ELSE IF n >= 11 THEN 16 ELSE n + (n \div 2)

\* C11: calculate_optimal_batch_size returns max(2, min(16, trunc(1.5 * N)))
\* for the detected vCPU count N (30 gives 16, zero or a negative count gives
\* 2), and on every path, the exception fallback included, the result lies
\* in [2, 16].
C11_BatchSizeClamped ==
  ppc = "returned" =>
    /\ batch_size \in 2..16
    /\ detection_source # "fallback" =>
         /\ batch_size = ExpectedBatchSize(DetectedCount)
         /\ DetectedCount = 30 => batch_size = 16
         /\ DetectedCount <= 0 => batch_size = 2

C11_Witness ==
  /\ ppc = "returned"
  /\ detection_source = "cgroup_v2"
  /\ DetectedCount = 3
  /\ batch_size = 4


\* a container source is available when it yields a vCPU count: it is present,
\* readable as numbers, and reports a limit
Available(k) == ContainerSources[k].r.kind = "value"

\* C12: the vCPU count used is that of the first available source in the
\* order RUNPOD_CPU_COUNT, cgroup v2, cgroup v1, OS core count; a lower
\* priority source is used only when no higher priority source is available.
C12_FirstAvailableSource ==
  ppc = "returned" =>
    /\ \A k \in 1..3 :
         (Available(k) /\ \A m \in 1..(k - 1) : ~Available(m)) =>
           /\ detection_source = ContainerSources[k].name
           /\ DetectedCount = ContainerSources[k].r.v
    /\ detection_source \in {"os", "fallback"} =>
         \A k \in 1..3 : ~Available(k)


\* C21: the failure of one detection source is not fatal and detection goes
\* on with the next source in priority order: when a source fails and a
\* later container source is available, the first such source is the one
\* whose count is used.
C21_FailureFallsThrough ==
  ppc = "returned" =>
    \A k, m \in 1..3 :
      ( /\ k < m
        /\ ContainerSources[k].r.kind = "raise"
        /\ \A h \in 1..(m - 1) : ~Available(h)
        /\ Available(m) ) =>
          /\ detection_source = ContainerSources[m].name
          /\ batch_size = Clamp(Optimal(ContainerSources[m].r.v))

\* ======================================================================
\* image_to_video: the local files of one item
\* ======================================================================

\* f"{image_id}_image.jpg" under WORK_DIR, f"video_{video_index}.mp4" under
\* OUTPUT_DIR
LocalFile(dir, name) == [dir |-> dir, name |-> name]
image_path == LocalFile("WORK_DIR", <<"", w_args.image_id, "_image.jpg">>)
output_path == LocalFile("OUTPUT_DIR", VideoFilename(w_args.video_index))

\* `if path:` (line 835)
UploadMode == w_args.path # None /\ w_args.path # ""

\* line 729: download_file(image_url, image_path) returns, or raises; when it
\* raises it may already have created the file (an empty or partial download)
W_Download ==
  /\ w_pc = "download"
  /\ \/ /\ local_files' = local_files \cup {image_path}
        /\ w_pc' = "ffmpeg"
        /\ w_raising' = FALSE
     \/ /\ \E created \in BOOLEAN :
             local_files' = IF created THEN local_files \cup {image_path}
                            ELSE local_files
        /\ w_pc' = "finally"
        /\ w_raising' = TRUE
  /\ UNCHANGED <<w_args, w_published>>

\* lines 826-830: FFmpeg runs. It exits 0 with a non-empty output; or exits 0
\* with no or an empty output (RuntimeError, line 830); or exits non-zero
\* (CalledProcessError) having written nothing or a partial output
W_Ffmpeg ==
  /\ w_pc = "ffmpeg"
  /\ \/ /\ local_files' = local_files \cup {output_path}
        /\ w_pc' = IF UploadMode THEN "upload" ELSE "finally"
        /\ w_raising' = FALSE
     \/ /\ \E created \in BOOLEAN :
             local_files' = IF created THEN local_files \cup {output_path}
                            ELSE local_files
        /\ w_pc' = "finally"
        /\ w_raising' = TRUE
  /\ UNCHANGED <<w_args, w_published>>

\* line 841: output_path.unlink(missing_ok=True)
OutputAfterUpload == local_files \ {output_path}

\* lines 837-841: upload_to_s3 returns and the local output is unlinked, or
\* upload_to_s3 raises
W_Upload ==
  /\ w_pc = "upload"
  /\ \/ /\ w_published' = w_published \cup
                            {S3Key(w_args.path, VideoFilename(w_args.video_index))}
        /\ local_files' = OutputAfterUpload
        /\ w_raising' = FALSE
     \/ /\ w_raising' = TRUE
        /\ UNCHANGED <<local_files, w_published>>
  /\ w_pc' = "finally"
  /\ UNCHANGED w_args

\* lines 865-867: finally: image_path.unlink(missing_ok=True); then the
\* return value or the exception leaves the function
W_Finally ==
  /\ w_pc = "finally"
  /\ local_files' = local_files \ {image_path}
  /\ w_pc' = IF w_raising THEN "raised" ELSE "returned"
  /\ UNCHANGED <<w_args, w_raising, w_published>>

InitWorker ==
  /\ w_pc = "download"
  /\ w_args \in [image_id : 1..MaxItems,
                 video_index : 1..(MaxStart + MaxItems),
                 path : PathInputs]
  /\ local_files = {}
  /\ w_raising = FALSE
  /\ w_published = {}
  /\ BatchIdle
  /\ DistIdle
  /\ SeqIdle
  /\ ProbeIdle
  /\ CyclicIdle
  /\ S3Idle
  /\ ChunkIdle

NextWorker ==
  \/ (W_Download /\ UNCHANGED nonWorkerVars)
  \/ (W_Ffmpeg /\ UNCHANGED nonWorkerVars)
  \/ (W_Upload /\ UNCHANGED nonWorkerVars)
  \/ (W_Finally /\ UNCHANGED nonWorkerVars)

SpecWorker == InitWorker /\ [][NextWorker]_vars

\* C19: when image_to_video has finished for an item in upload mode, by
\* returning or by raising, neither the downloaded input image nor the
\* produced output video of that item is left on the local disk.
C19_NoLocalArtifacts ==
  (w_pc \in {"returned", "raised"} /\ UploadMode) =>
    /\ image_path \notin local_files
    /\ output_path \notin local_files


\* ======================================================================
\* the image_to_video workers of one chunk and their input files: the
\* executor of line 954 has max_workers = BATCH_SIZE >= len(batch), so
\* every worker of the chunk runs at once; neither handler (2057-2078) nor
\* process_img2vid_batch (946-968) compares the ids of the items
\* ======================================================================
Workers == 1..MaxWorkers
ImageIds == 1..MaxWorkers

\* a plausible slip: one fixed name for the input image
ImagePathShared(image_id) == LocalFile("WORK_DIR", <<"", 0, "_image.jpg">>)

\* line 717: WORK_DIR / f"{image_id}_image.jpg"
ImagePathOf(image_id) == LocalFile("WORK_DIR", <<"", image_id, "_image.jpg">>)

InputPaths == {ImagePathOf(image_id) : image_id \in ImageIds}

\* line 729: download_file(image_url, image_path) writes the file and
\* returns; or it raises, before opening the file or after it has written
\* an empty or partial one (lines 514, 535-537)
T_Download(a) ==
  /\ t_pc[a] = "download"
  /\ \/ /\ work_dir' = [work_dir EXCEPT ![ImagePathOf(t_image_id[a])] = a]
        /\ t_pc' = [t_pc EXCEPT ![a] = "ffmpeg"]
        /\ UNCHANGED t_raising
     \/ /\ \E created \in BOOLEAN :
             work_dir' = IF created
                         THEN [work_dir EXCEPT ![ImagePathOf(t_image_id[a])] = a]
                         ELSE work_dir
        /\ t_pc' = [t_pc EXCEPT ![a] = "finally"]
        /\ t_raising' = [t_raising EXCEPT ![a] = TRUE]
  /\ UNCHANGED t_image_id

\* lines 826-830: FFmpeg has read image_path and ended, with a usable output
\* or with an error
T_Ffmpeg(a) ==
  /\ t_pc[a] = "ffmpeg"
  /\ \E ok \in BOOLEAN :
       /\ t_pc' = [t_pc EXCEPT ![a] = IF ok THEN "upload" ELSE "finally"]
       /\ t_raising' = [t_raising EXCEPT ![a] = ~ok]
  /\ UNCHANGED <<t_image_id, work_dir>>

\* lines 835-860: the output is uploaded (or its URL is built); the input
\* file is not touched
T_Upload(a) ==
  /\ t_pc[a] = "upload"
  /\ \E ok \in BOOLEAN :
       /\ t_pc' = [t_pc EXCEPT ![a] = "finally"]
       /\ t_raising' = [t_raising EXCEPT ![a] = ~ok]
  /\ UNCHANGED <<t_image_id, work_dir>>

\* lines 865-867: finally: image_path.unlink(missing_ok=True)
T_Finally(a) ==
  /\ t_pc[a] = "finally"
  /\ work_dir' = [work_dir EXCEPT ![ImagePathOf(t_image_id[a])] = 0]
  /\ t_pc' = [t_pc EXCEPT ![a] = IF t_raising[a] THEN "raised" ELSE "returned"]
  /\ UNCHANGED <<t_image_id, t_raising>>

InitChunk ==
  /\ t_pc = [a \in Workers |-> "download"]
  /\ t_image_id \in [Workers -> ImageIds]
  /\ t_raising = [a \in Workers |-> FALSE]
  /\ work_dir = [f \in InputPaths |-> 0]
  /\ BatchIdle
  /\ DistIdle
  /\ SeqIdle
  /\ ProbeIdle
  /\ WorkerIdle
  /\ CyclicIdle
  /\ S3Idle

NextChunk ==
  \/ (\E a \in Workers : T_Download(a) /\ UNCHANGED nonChunkVars)
  \/ (\E a \in Workers : T_Ffmpeg(a) /\ UNCHANGED nonChunkVars)
  \/ (\E a \in Workers : T_Upload(a) /\ UNCHANGED nonChunkVars)
  \/ (\E a \in Workers : T_Finally(a) /\ UNCHANGED nonChunkVars)

SpecChunk == InitChunk /\ [][NextChunk]_vars

\* C27: two workers of one chunk have distinct input paths exactly when the
\* ids of their items are distinct, and a worker whose item id no other
\* worker of the chunk shares finds, while FFmpeg has its input file in use,
\* the file its own download wrote; with a shared id a worker can find its
\* input file overwritten or deleted by the other (C27_Witness).
C27_InputPathPerId ==
  /\ \A a, b \in Workers :
        (ImagePathOf(t_image_id[a]) = ImagePathOf(t_image_id[b]))
          <=> (t_image_id[a] = t_image_id[b])
  /\ \A a \in Workers :
        ( /\ t_pc[a] = "ffmpeg"
          /\ \A b \in Workers \ {a} : t_image_id[b] # t_image_id[a] ) =>
            work_dir[ImagePathOf(t_image_id[a])] = a

\* a worker has downloaded its input and FFmpeg has not ended, and the file
\* at its input path is gone or was written by the other worker of the same
\* id
C27_Witness ==
  \E a, b \in Workers :
    /\ a # b
    /\ t_image_id[a] = t_image_id[b]
    /\ t_pc[a] = "ffmpeg"
    /\ work_dir[ImagePathOf(t_image_id[a])] # a
    /\ t_pc[b] \in {"ffmpeg", "upload", "finally", "returned", "raised"}

\* ======================================================================
\* handler (concat_video_audio) and concatenate_videos_cyclic: the steps of
\* one job, its local files and its FFmpeg invocations
\* ======================================================================

\* durations ffprobe reports in this specification (seconds, exact floats);
\* clips of duration 0 are the subject of SpecSeq
ClipDurations == {1, 2}
AudioDurations == 0..3

\* files of the job: work_dir / name and OUTPUT_DIR / output_filename
video_path(n) == LocalFile("work_dir", <<"video_", n, ".mp4">>)
normalized_path(n) == LocalFile("work_dir", <<"normalized_", n, ".mp4">>)
trimmed_path == LocalFile("work_dir", <<"trimmed_last", 0, ".mp4">>)
concat_list_path == LocalFile("work_dir", <<"concat_list", 0, ".txt">>)
audio_path == LocalFile("work_dir", <<"audio", 0, ".mp3">>)
final_output_path == LocalFile("OUTPUT_DIR", <<"output", 0, ".mp4">>)

\* a step that raises may or may not have created the file it was writing
MaybeCreated(file) == {job_files, job_files \cup {file}}

\* the exception goes to the except / finally clauses
C_Raise ==
  /\ c_raising' = TRUE
  /\ c_pc' = "finally"

\* handler, lines 2168-2178: `not video_urls` rejects an empty clip list
\* (audio_url, path and output_filename are present in the jobs modelled);
\* then concatenate_videos_cyclic is entered: work_dir.mkdir (line 1489)
C_Handler ==
  /\ c_pc = "handler"
  /\ IF video_urls = <<>>
     THEN /\ c_pc' = "rejected"
          /\ UNCHANGED work_dir_exists
     ELSE /\ c_pc' = "download"
          /\ work_dir_exists' = TRUE
  /\ UNCHANGED <<video_urls, normalize, c_k, job_files, input_files,
                 normalized_files, trimmed_files, c_raising, transcodes,
                 seqVars>>

\* Step 1, lines 1501-1519: one iteration of the download loop; the clip is
\* put on the cleanup list after its download returned
C_DownloadVideo ==
  /\ c_pc = "download"
  /\ \/ /\ job_files' = job_files \cup {video_path(c_k)}
        /\ input_files' = Append(input_files, video_path(c_k))
        /\ c_k' = IF c_k + 1 < Len(video_urls) THEN c_k + 1 ELSE 0
        /\ c_pc' = IF c_k + 1 < Len(video_urls) THEN "download" ELSE "audio"
        /\ UNCHANGED c_raising
     \/ /\ job_files' \in MaybeCreated(video_path(c_k))
        /\ C_Raise
        /\ UNCHANGED <<input_files, c_k>>
  /\ UNCHANGED <<video_urls, normalize, work_dir_exists, normalized_files,
                 trimmed_files, transcodes, seqVars>>

\* Step 2, lines 1524-1526: download_file(audio_url, audio_path)
C_DownloadAudio ==
  /\ c_pc = "audio"
  /\ \/ /\ job_files' = job_files \cup {audio_path}
        /\ c_pc' = "probe"
        /\ UNCHANGED c_raising
     \/ /\ job_files' \in MaybeCreated(audio_path)
        /\ C_Raise
  /\ UNCHANGED <<video_urls, normalize, c_k, work_dir_exists, input_files,
                 normalized_files, trimmed_files, transcodes, seqVars>>

\* Steps 2 and 3, lines 1528-1551: ffprobe gives the audio duration and the
\* duration of every clip, or fails
C_Probe ==
  /\ c_pc = "probe"
  /\ \/ /\ audio_duration' \in AudioDurations
        /\ video_durations' \in [1..Len(video_urls) -> ClipDurations]
        /\ c_pc' = IF normalize THEN "normalize" ELSE "sequence"
        /\ UNCHANGED c_raising
     \/ /\ C_Raise
        /\ UNCHANGED <<audio_duration, video_durations>>
  /\ UNCHANGED <<video_urls, normalize, c_k, job_files, work_dir_exists,
                 input_files, normalized_files, trimmed_files, transcodes,
                 spc, video_sequence, accumulated_duration, video_index,
                 segment_count>>

\* Step 4, lines 1557-1595: one iteration of the normalization loop, an
\* FFmpeg transcode; the result is put on the cleanup list after FFmpeg
\* returned
C_Normalize ==
  /\ c_pc = "normalize"
  /\ transcodes' = Append(transcodes, "normalize")
  /\ \/ /\ job_files' = job_files \cup {normalized_path(c_k)}
        /\ normalized_files' = Append(normalized_files, normalized_path(c_k))
        /\ c_k' = IF c_k + 1 < Len(input_files) THEN c_k + 1 ELSE 0
        /\ c_pc' = IF c_k + 1 < Len(input_files) THEN "normalize" ELSE "sequence"
        /\ UNCHANGED c_raising
     \/ /\ job_files' \in MaybeCreated(normalized_path(c_k))
        /\ C_Raise
        /\ UNCHANGED <<normalized_files, c_k>>
  /\ UNCHANGED <<video_urls, normalize, work_dir_exists, input_files,
                 trimmed_files, seqVars>>

\* Step 5, lines 1597-1603: the sequencing loop starts (its iterations are
\* SeqFull, SeqPartial and SeqLoopExit)
C_BeginSequence ==
  /\ c_pc = "sequence"
  /\ c_pc' = "trim"
  /\ spc' = "calc"
  /\ video_sequence' = <<>>
  /\ accumulated_duration' = 0
  /\ video_index' = 0
  /\ segment_count' = 0
  /\ UNCHANGED <<video_urls, normalize, c_k, job_files, work_dir_exists,
                 input_files, normalized_files, trimmed_files, c_raising,
                 transcodes, video_durations, audio_duration>>

\* positions of video_sequence that are to be trimmed
PartialPositions == {x \in DOMAIN video_sequence : video_sequence[x].partial}

\* Step 6, lines 1629-1692: without a partial segment nothing is done; with
\* one, FFmpeg transcodes it to trimmed_last.mp4, which is put on the cleanup
\* list, probed, and takes the segment's place (clip -1 names it)
C_Trim ==
  /\ c_pc = "trim"
  /\ spc = "done"
  /\ IF PartialPositions = {}
     THEN /\ c_pc' = "concat_list"
          /\ UNCHANGED <<job_files, trimmed_files, c_raising, transcodes,
                         video_sequence>>
     ELSE /\ transcodes' = Append(transcodes, "trim")
          /\ \/ /\ job_files' = job_files \cup {trimmed_path}
                /\ trimmed_files' = Append(trimmed_files, trimmed_path)
                /\ \/ /\ video_sequence' =
                           [x \in DOMAIN video_sequence |->
                              IF x \in PartialPositions
                              THEN Segment(-1, video_sequence[x].duration, FALSE)
                              ELSE video_sequence[x]]
                      /\ c_pc' = "concat_list"
                      /\ UNCHANGED c_raising
                   \/ /\ C_Raise
                      /\ UNCHANGED video_sequence
             \/ /\ job_files' \in MaybeCreated(trimmed_path)
                /\ C_Raise
                /\ UNCHANGED <<trimmed_files, video_sequence>>
  /\ UNCHANGED <<video_urls, normalize, c_k, work_dir_exists, input_files,
                 normalized_files, spc, video_durations, audio_duration,
                 accumulated_duration, video_index, segment_count>>

\* Step 7, lines 1694-1700: the concat list is written
C_WriteConcatList ==
  /\ c_pc = "concat_list"
  /\ job_files' = job_files \cup {concat_list_path}
  /\ c_pc' = "concat"
  /\ UNCHANGED <<video_urls, normalize, c_k, work_dir_exists, input_files,
                 normalized_files, trimmed_files, c_raising, transcodes,
                 seqVars>>

\* Step 8, lines 1702-1728: the FFmpeg assembly run; it fails, or leaves no
\* or an empty output (RuntimeError), or writes the output
C_Concat ==
  /\ c_pc = "concat"
  /\ transcodes' = Append(transcodes, "concat")
  /\ \/ /\ job_files' = job_files \cup {final_output_path}
        /\ c_pc' = "verify"
        /\ UNCHANGED c_raising
     \/ /\ job_files' \in MaybeCreated(final_output_path)
        /\ C_Raise
  /\ UNCHANGED <<video_urls, normalize, c_k, work_dir_exists, input_files,
                 normalized_files, trimmed_files, seqVars>>

\* Step 9, lines 1733-1750: ffprobe of the final video returns or fails
C_Verify ==
  /\ c_pc = "verify"
  /\ \/ /\ c_pc' = "upload"
        /\ UNCHANGED c_raising
     \/ C_Raise
  /\ UNCHANGED <<video_urls, normalize, c_k, job_files, work_dir_exists,
                 input_files, normalized_files, trimmed_files, transcodes,
                 seqVars>>

\* Step 10, lines 1752-1777: upload_to_s3 returns and the local output is
\* unlinked, or upload_to_s3 raises
C_Upload ==
  /\ c_pc = "upload"
  /\ \/ /\ job_files' = job_files \ {final_output_path}
        /\ c_pc' = "finally"
        /\ UNCHANGED c_raising
     \/ /\ C_Raise
        /\ UNCHANGED job_files
  /\ UNCHANGED <<video_urls, normalize, c_k, work_dir_exists, input_files,
                 normalized_files, trimmed_files, transcodes, seqVars>>

\* lines 1779-1794, the except and finally clauses: the files on the three cleanup lists,
\* the concat list and the audio are unlinked; work_dir.rmdir() removes the
\* directory if it is empty and its failure is swallowed
FilesAfterCleanup ==
  job_files \ (Range(input_files) \cup Range(normalized_files)
                 \cup Range(trimmed_files) \cup {concat_list_path, audio_path})

C_Finally ==
  /\ c_pc = "finally"
  /\ job_files' = FilesAfterCleanup
  /\ work_dir_exists' = (\E f \in FilesAfterCleanup : f.dir = "work_dir")
  /\ c_pc' = IF c_raising THEN "raised" ELSE "returned"
  /\ UNCHANGED <<video_urls, normalize, c_k, input_files, normalized_files,
                 trimmed_files, c_raising, transcodes, seqVars>>

InitCyclic ==
  /\ c_pc = "handler"
  /\ \E n \in 0..MaxClips : video_urls = [x \in 1..n |-> x - 1]
  /\ normalize \in BOOLEAN
  /\ c_k = 0
  /\ job_files = {}
  /\ work_dir_exists = FALSE
  /\ input_files = <<>>
  /\ normalized_files = <<>>
  /\ trimmed_files = <<>>
  /\ c_raising = FALSE
  /\ transcodes = <<>>
  /\ BatchIdle
  /\ DistIdle
  /\ SeqIdle
  /\ ProbeIdle
  /\ WorkerIdle
  /\ S3Idle
  /\ ChunkIdle

NextCyclic ==
  \/ (C_Handler /\ UNCHANGED nonCyclicVars)
  \/ (C_DownloadVideo /\ UNCHANGED nonCyclicVars)
  \/ (C_DownloadAudio /\ UNCHANGED nonCyclicVars)
  \/ (C_Probe /\ UNCHANGED nonCyclicVars)
  \/ (C_Normalize /\ UNCHANGED nonCyclicVars)
  \/ (C_BeginSequence /\ UNCHANGED nonCyclicVars)
  \/ (SeqFull /\ UNCHANGED nonSeqVars)
  \/ (SeqPartial /\ UNCHANGED nonSeqVars)
  \/ (SeqLoopExit /\ UNCHANGED nonSeqVars)
  \/ (C_Trim /\ UNCHANGED nonCyclicVars)
  \/ (C_WriteConcatList /\ UNCHANGED nonCyclicVars)
  \/ (C_Concat /\ UNCHANGED nonCyclicVars)
  \/ (C_Verify /\ UNCHANGED nonCyclicVars)
  \/ (C_Upload /\ UNCHANGED nonCyclicVars)
  \/ (C_Finally /\ UNCHANGED nonCyclicVars)

SpecCyclic == InitCyclic /\ [][NextCyclic]_vars

\* C13: a cyclic-concatenation job whose clip list is empty or whose target
\* (audio) duration is not positive is aborted with an error, and no
\* transcoding invocation (normalization, trim, assembly) is ever made for it.
C13_AbortBeforeTranscoding ==
  (video_urls = <<>> \/ (video_durations # <<>> /\ audio_duration <= 0)) =>
    /\ transcodes = <<>>
    /\ c_pc # "returned"

\* C20: when concatenate_videos_cyclic has finished, on any path, no file it
\* created is left on the local disk and its work directory is removed.
C20_NoFilesLeft ==
  c_pc \in {"returned", "raised"} =>
    /\ job_files = {}
    /\ ~work_dir_exists


\* ======================================================================
\* Jobs running in one process and sharing the S3 globals: handler,
\* reconfigure_s3, upload_to_s3
\* ======================================================================

MaxJobs == 2
Jobs == 1..MaxJobs

\* the fields of an s3_config (secret_key goes with access_key, region with
\* endpoint_url); job n's s3_config gives value n to each field it provides,
\* the values of the environment are 0
S3Fields == {"endpoint_url", "access_key", "bucket_name"}

\* the s3_config values of the jobs: none (or empty), a bucket only, all fields
ConfigInputs == {{}, {"bucket_name"}, S3Fields}

\* a plausible slip: a field the job does not give falls back to the value of
\* the environment
ConfigGetDefault(n, field, current) == IF field \in s3_config[n] THEN n ELSE 0

\* s3_config.get(field, current)
ConfigGet(n, field, current) == IF field \in s3_config[n] THEN n ELSE current

\* another job's reconfiguration step falls between the start of a job's own
\* reconfiguration and the end of its upload
Interfere(n) ==
  interfered' = [m \in Jobs |->
                   IF m # n /\ j_pc[m] \notin {"handler", "assign", "done", "rejected", "failed"}
                   THEN TRUE ELSE interfered[m]]

\* a plausible slip: the client is configured once, never per job
ReconfigureNever(n) == FALSE

\* handler, lines 2025-2026: `if s3_config:`, false for a job without
\* s3_config and for an empty one
ReconfigureWanted(n) == s3_config[n] # {}

\* a plausible slip: the job is validated before its s3_config is applied
J_HandlerValidateFirst(n) ==
  /\ j_pc[n] = "handler"
  /\ j_pc' = [j_pc EXCEPT ![n] = IF ~j_valid[n] THEN "rejected"
                                 ELSE IF ReconfigureWanted(n) THEN "assign"
                                 ELSE "validate"]
  /\ UNCHANGED <<j_valid, s3_config, S3_ENDPOINT_URL, S3_ACCESS_KEY,
                 S3_BUCKET_NAME, s3_client, bucket, uploaded, public_url,
                 interfered, reconfigure_log>>

\* handler, lines 2024-2028
J_Handler(n) ==
  /\ j_pc[n] = "handler"
  /\ j_pc' = [j_pc EXCEPT ![n] = IF ReconfigureWanted(n) THEN "assign"
                                 ELSE "validate"]
  /\ UNCHANGED <<j_valid, s3_config, S3_ENDPOINT_URL, S3_ACCESS_KEY, S3_BUCKET_NAME,
                 s3_client, bucket, uploaded, public_url, interfered>>
  /\ UNCHANGED reconfigure_log

\* reconfigure_s3, lines 222-226: the globals are assigned
J_ReconfigureAssign(n) ==
  /\ j_pc[n] = "assign"
  /\ S3_ENDPOINT_URL' = ConfigGet(n, "endpoint_url", S3_ENDPOINT_URL)
  /\ S3_ACCESS_KEY' = ConfigGet(n, "access_key", S3_ACCESS_KEY)
  /\ S3_BUCKET_NAME' = ConfigGet(n, "bucket_name", S3_BUCKET_NAME)
  /\ j_pc' = [j_pc EXCEPT ![n] = "client"]
  /\ Interfere(n)
  /\ UNCHANGED <<j_valid, s3_config, s3_client, bucket, uploaded, public_url>>
  /\ reconfigure_log' = Append(reconfigure_log, n)

\* reconfigure_s3, lines 228-235: a new client is built from the globals and
\* assigned; or boto3.client raises (a malformed endpoint), the globals keep
\* their new values, s3_client stays, and the exception leaves handler
J_ReconfigureClient(n) ==
  /\ j_pc[n] = "client"
  /\ \/ /\ s3_client' = [endpoint_url |-> S3_ENDPOINT_URL,
                         access_key |-> S3_ACCESS_KEY]
        /\ j_pc' = [j_pc EXCEPT ![n] = "validate"]
     \/ /\ UNCHANGED s3_client
        /\ j_pc' = [j_pc EXCEPT ![n] = "failed"]
  /\ Interfere(n)
  /\ UNCHANGED <<j_valid, s3_config, S3_ENDPOINT_URL, S3_ACCESS_KEY, S3_BUCKET_NAME,
                 bucket, uploaded, public_url>>
  /\ UNCHANGED reconfigure_log

\* handler, lines 2030-2259: inside the try block the branch of the operation
\* checks its required fields (e.g. 2064, 2174) and an unknown operation
\* reaches the final else (2254-2255): ValueError, logged and re-raised
J_Validate(n) ==
  /\ j_pc[n] = "validate"
  /\ j_pc' = [j_pc EXCEPT ![n] = IF j_valid[n] THEN "work" ELSE "rejected"]
  /\ UNCHANGED <<j_valid, s3_config, S3_ENDPOINT_URL, S3_ACCESS_KEY,
                 S3_BUCKET_NAME, s3_client, bucket, uploaded, public_url,
                 interfered, reconfigure_log>>

\* the operation has produced its output and calls
\* upload_to_s3(output_path, S3_BUCKET_NAME, s3_key) (e.g. line 838): the
\* bucket argument is the global's value at the call
J_UploadCall(n) ==
  /\ j_pc[n] = "work"
  /\ bucket' = [bucket EXCEPT ![n] = S3_BUCKET_NAME]
  /\ j_pc' = [j_pc EXCEPT ![n] = "upload_file"]
  /\ UNCHANGED <<j_valid, s3_config, S3_ENDPOINT_URL, S3_ACCESS_KEY, S3_BUCKET_NAME,
                 s3_client, uploaded, public_url, interfered>>
  /\ UNCHANGED reconfigure_log

\* upload_to_s3, lines 465-470: s3_client.upload_file(..., bucket, s3_key)
J_UploadFile(n) ==
  /\ j_pc[n] = "upload_file"
  /\ uploaded' = [uploaded EXCEPT ![n] =
                    [endpoint_url |-> s3_client.endpoint_url,
                     access_key |-> s3_client.access_key,
                     bucket_name |-> bucket[n]]]
  /\ j_pc' = [j_pc EXCEPT ![n] = "public_url"]
  /\ UNCHANGED <<j_valid, s3_config, S3_ENDPOINT_URL, S3_ACCESS_KEY, S3_BUCKET_NAME,
                 s3_client, bucket, public_url, interfered>>
  /\ UNCHANGED reconfigure_log

\* upload_to_s3, lines 473-478: public_url = f"{S3_ENDPOINT_URL}/{bucket}/{s3_key}"
J_PublicUrl(n) ==
  /\ j_pc[n] = "public_url"
  /\ public_url' = [public_url EXCEPT ![n] =
                      [endpoint_url |-> S3_ENDPOINT_URL,
                       bucket_name |-> bucket[n]]]
  /\ j_pc' = [j_pc EXCEPT ![n] = "done"]
  /\ UNCHANGED <<j_valid, s3_config, S3_ENDPOINT_URL, S3_ACCESS_KEY, S3_BUCKET_NAME,
                 s3_client, bucket, uploaded, interfered>>
  /\ UNCHANGED reconfigure_log

NotUploaded == [endpoint_url |-> -1, access_key |-> -1, bucket_name |-> -1]
NoUrl == [endpoint_url |-> -1, bucket_name |-> -1]

InitS3 ==
  /\ j_pc = [n \in Jobs |-> "handler"]
  /\ s3_config \in [Jobs -> ConfigInputs]
  /\ S3_ENDPOINT_URL = 0
  /\ S3_ACCESS_KEY = 0
  /\ S3_BUCKET_NAME = 0
  /\ s3_client = [endpoint_url |-> 0, access_key |-> 0]
  /\ bucket = [n \in Jobs |-> -1]
  /\ uploaded = [n \in Jobs |-> NotUploaded]
  /\ public_url = [n \in Jobs |-> NoUrl]
  /\ interfered = [n \in Jobs |-> FALSE]
  /\ j_valid \in [Jobs -> BOOLEAN]
  /\ reconfigure_log = <<>>
  /\ BatchIdle
  /\ DistIdle
  /\ SeqIdle
  /\ ProbeIdle
  /\ WorkerIdle
  /\ CyclicIdle
  /\ ChunkIdle

NextS3 ==
  \/ (\E n \in Jobs : J_Handler(n) /\ UNCHANGED nonS3Vars)
  \/ (\E n \in Jobs : J_ReconfigureAssign(n) /\ UNCHANGED nonS3Vars)
  \/ (\E n \in Jobs : J_ReconfigureClient(n) /\ UNCHANGED nonS3Vars)
  \/ (\E n \in Jobs : J_Validate(n) /\ UNCHANGED nonS3Vars)
  \/ (\E n \in Jobs : J_UploadCall(n) /\ UNCHANGED nonS3Vars)
  \/ (\E n \in Jobs : J_UploadFile(n) /\ UNCHANGED nonS3Vars)
  \/ (\E n \in Jobs : J_PublicUrl(n) /\ UNCHANGED nonS3Vars)

SpecS3 == InitS3 /\ [][NextS3]_vars

\* C15: jobs with different s3_config that run concurrently in one process
\* can use one another's settings: a job's upload and URL carry the job's own
\* endpoint, credentials and bucket whenever no other job reconfigured the
\* client meanwhile, and (witness) with such interference a state is reached
\* where the upload or the returned URL of one job uses the other's settings.
C15_OwnConfigUnlessInterfered ==
  \A n \in Jobs :
    (j_pc[n] = "done" /\ ~interfered[n]) =>
      /\ \A f \in s3_config[n] : uploaded[n][f] = n
      /\ \A f \in s3_config[n] \cap {"endpoint_url", "bucket_name"} :
           public_url[n][f] = n

\* both jobs give a full s3_config; job 1 has finished, its object went to
\* job 2's bucket, or through job 2's endpoint or credentials, or its URL
\* names job 2's endpoint
C15_Witness ==
  /\ s3_config[1] = S3Fields
  /\ s3_config[2] = S3Fields
  /\ j_pc[1] = "done"
  /\ \/ uploaded[1].bucket_name = 2
     \/ uploaded[1].endpoint_url = 2
     \/ uploaded[1].access_key = 2
     \/ public_url[1].endpoint_url = 2

\* the module-level setting behind a field of s3_config (lines 195-199)
S3Global(field) ==
  CASE field = "endpoint_url" -> S3_ENDPOINT_URL
    [] field = "access_key" -> S3_ACCESS_KEY
    [] field = "bucket_name" -> S3_BUCKET_NAME

\* C29: handler applies a job's s3_config before it validates the job: a job
\* with an s3_config that has been rejected has reconfigured the shared
\* storage settings, and while no later reconfiguration has followed the
\* globals and the client hold the rejected job's values.
C29_RejectedJobReconfigured ==
  \A n \in Jobs :
    (j_pc[n] = "rejected" /\ s3_config[n] # {}) =>
      /\ \E q \in DOMAIN reconfigure_log : reconfigure_log[q] = n
      /\ reconfigure_log[Len(reconfigure_log)] = n =>
           /\ \A f \in s3_config[n] : S3Global(f) = n
           /\ \A f \in s3_config[n] \cap {"endpoint_url", "access_key"} :
                s3_client[f] = n

\* job 1 gave a full s3_config and was rejected; job 2, without s3_config,
\* has uploaded to job 1's bucket through job 1's endpoint and credentials
C29_Witness ==
  /\ j_pc[1] = "rejected"
  /\ s3_config[1] = S3Fields
  /\ s3_config[2] = {}
  /\ j_pc[2] = "done"
  /\ uploaded[2] = [endpoint_url |-> 1, access_key |-> 1, bucket_name |-> 1]
  /\ public_url[2] = [endpoint_url |-> 1, bucket_name |-> 1]

RECURSIVE LastSupplied(_, _)
\* the value of the most recent job of the log that supplied the field, the
\* startup value 0 if none did
LastSupplied(field, log) ==
  IF log = <<>> THEN 0
  ELSE IF field \in s3_config[log[Len(log)]] THEN log[Len(log)]
  ELSE LastSupplied(field, SubSeq(log, 1, Len(log) - 1))

\* C30: the storage settings are never reset between jobs: at every moment
\* each setting holds the value given by the most recent job that supplied
\* it, or the startup value if none did.
C30_SettingsPersist ==
  \A f \in S3Fields : S3Global(f) = LastSupplied(f, reconfigure_log)

\* job 1 gave a full s3_config, job 2 only a bucket; undisturbed, job 2 has
\* uploaded to its own bucket through job 1's endpoint and credentials
C30_Witness ==
  /\ s3_config[1] = S3Fields
  /\ s3_config[2] = {"bucket_name"}
  /\ j_pc[2] = "done"
  /\ ~interfered[2]
  /\ reconfigure_log = <<1, 2>>
  /\ uploaded[2] = [endpoint_url |-> 1, access_key |-> 1, bucket_name |-> 2]

====
